---- MODULE Spec2Model ----
(***************************************************************************)
(* notion-docs-sync: a local tree of Markdown files is mirrored onto the   *)
(* pages and blocks of a remote workspace.  The model holds the remote     *)
(* service's state (blocks, child lists, collections and the log of the    *)
(* mutations issued to it), the local directory tree, and the position of  *)
(* each routine of src/notion_docs_sync/__init__.py in its loop.           *)
(*                                                                         *)
(* The remote client (notion-py) is an external collaborator: a block's    *)
(* children are iterated over a snapshot of the child list taken when the  *)
(* iteration starts, add_new appends the new block as last child, remove   *)
(* detaches a block (with everything below it) from its parent, and a      *)
(* property reads back as it was written.                                  *)
(***************************************************************************)
EXTENDS Integers, Sequences, FiniteSets, TLC

VARIABLES
    remote,          \* [blocks: Seq(block record), ops: Seq(mutation issued)]
    pc,              \* position of the routine under check
    pre,             \* the remote state when the routine under check was called
    targets,         \* reconciler: markdown_blocks, the target descriptors
    parent,          \* reconciler: block, the parent being reconciled
    idx,             \* reconciler: index of the next descriptor of the loop
    cursor,          \* reconciler: what children_iter has not yet yielded
    touched,         \* reconciler: touched_blocks
    matched,         \* reconciler: the child used for each descriptor so far
    table,           \* collection sync: [schema, rows] of the current call
    fs,              \* directory sync: the entries of the local root directory
    files_to_pages,  \* directory sync: the mapping, as ordered (path, block) pairs
    pos,             \* directory sync: index of the next pair of the loop
    run,             \* directory sync: 1 for the first pass, 2 for the second
    inferred,        \* directory sync: the blocks infer_block returned in this pass
    deleted,         \* directory sync: the (path, block) pair of the file deleted
                     \* locally between the passes, <<>> when none was
    tree,            \* renderer: the parse tree handed to convert, <<>> when none
    rendered,        \* renderer: the descriptors convert returned
    runs,            \* renderer: the styled runs handed to merge_adjacent_tokens
    merged           \* renderer: what the successive merges of runs returned

vars == <<remote, pc, pre, targets, parent, idx, cursor, touched, matched, table,
          fs, files_to_pages, pos, run, inferred, deleted,
          tree, rendered, runs, merged>>

reconVars == <<targets, parent, idx, cursor, touched, matched>>

dirVars == <<fs, files_to_pages, pos, run, inferred, deleted>>

renderVars == <<tree, rendered, runs, merged>>

NoRender ==
    /\ tree = <<>>
    /\ rendered = <<>>
    /\ runs = <<>>
    /\ merged = <<>>

NoDir ==
    /\ fs = <<>>
    /\ files_to_pages = <<>>
    /\ pos = 1
    /\ run = 1
    /\ inferred = {}
    /\ deleted = <<>>

----------------------------------------------------------------------------
(* Bounds of the model. *)

MaxKids == 2         \* initial children of the reconciled parent
MaxTargets == 2      \* descriptors handed to the reconciler
MaxRows == 2         \* rows of a table, and rows a collection starts with
MaxEntries == 2      \* entries of the local root directory
MaxInline == 2       \* inline nodes of a rendered block
MaxRuns == 3         \* styled runs handed to merge_adjacent_tokens

----------------------------------------------------------------------------
(* Sequence helpers. *)

Range(s) == {s[i] : i \in DOMAIN s}

SeqsUpTo(S, n) == UNION {[1..k -> S] : k \in 0..n}

RemoveFirst(s, x) ==
    IF \E i \in DOMAIN s : s[i] = x
    THEN LET i == CHOOSE j \in DOMAIN s : s[j] = x /\ \A k \in 1..(j-1) : s[k] # x
         IN SubSeq(s, 1, i - 1) \o SubSeq(s, i + 1, Len(s))
    ELSE s

Min(a, b) == IF a < b THEN a ELSE b

----------------------------------------------------------------------------
(* The remote service: blocks, child lists, the log of mutations. *)

Root == 1

NoCollection == [exists |-> FALSE, schema |-> <<>>, rows |-> <<>>, nextrow |-> 1]

NewBlock(type, props, par) ==
    [type |-> type, props |-> props, title |-> <<>>, content |-> <<>>,
     alive |-> TRUE, parent |-> par, locked |-> FALSE, icon |-> "None",
     collection |-> NoCollection]

EmptyRemote == [blocks |-> << NewBlock("page", <<>>, 0) >>, ops |-> <<>>]

Log(R, op) == [R EXCEPT !.ops = Append(@, op)]

\* block.children.add_new(cls, **props): the new block is the last child.
add_new(R, par, type, props) ==
    LET id == Len(R.blocks) + 1
    IN Log([R EXCEPT !.blocks = Append([@ EXCEPT ![par].content = Append(@, id)],
                                       NewBlock(type, props, par))],
           <<"add_new", id>>)

\* c.remove(): the block leaves its parent's child list, with all below it.
remove(R, id) ==
    LET par == R.blocks[id].parent
    IN Log([R EXCEPT !.blocks[par].content = RemoveFirst(@, id),
                     !.blocks[id].alive = FALSE],
           <<"remove", id>>)

RECURSIVE remove_all(_, _)
remove_all(R, ids) ==
    IF ids = <<>> THEN R ELSE remove_all(remove(R, Head(ids)), Tail(ids))

\* child_block.set(["properties", "title"], markdown_contents)
set_title(R, id, title) ==
    Log([R EXCEPT !.blocks[id].title = title], <<"set_title", id>>)

\* page.move_to(block, 'last-child')
move_to_last(R, id, target) ==
    LET par == R.blocks[id].parent
        B1 == [R.blocks EXCEPT ![par].content = RemoveFirst(@, id)]
        B2 == [B1 EXCEPT ![target].content = Append(@, id), ![id].parent = target]
    IN Log([R EXCEPT !.blocks = B2], <<"move_to", id>>)

\* getattr(block, key) for a key of the descriptor
getattr(b, key) ==
    IF \E i \in DOMAIN b.props : b.props[i][1] = key
    THEN b.props[CHOOSE i \in DOMAIN b.props : b.props[i][1] = key][2]
    ELSE "None"

\* A block is still in the tree: it and every ancestor up to the root is a
\* live member of its parent's child list.
RECURSIVE Attached(_, _)
Attached(R, id) ==
    \/ id = Root
    \/ /\ R.blocks[id].alive
       /\ R.blocks[id].parent # 0
       /\ id \in Range(R.blocks[R.blocks[id].parent].content)
       /\ Attached(R, R.blocks[id].parent)

Children(R, id) == R.blocks[id].content

IsPage(R, id) == R.blocks[id].type = "page"

NonPages(R, ids) == SelectSeq(ids, LAMBDA c : ~IsPage(R, c))

Pages(R, ids) == SelectSeq(ids, LAMBDA c : IsPage(R, c))

----------------------------------------------------------------------------
(* Table / collection synchronizer. *)

HexDigits == <<"0", "1", "2", "3", "4", "5", "6", "7", "8", "9",
               "a", "b", "c", "d", "e", "f">>

RECURSIVE Hex(_)
Hex(n) == IF n < 16 THEN HexDigits[n + 1]
          ELSE Hex(n \div 16) \o HexDigits[(n % 16) + 1]

RECURSIVE PadLeft(_, _, _)
PadLeft(s, fill, width) ==
    IF Len(s) >= width THEN s ELSE PadLeft(fill \o s, fill, width)

\* format(i, '0>4x')
format_0_4x(i) == PadLeft(Hex(i), "0", 4)

\* collection_schema_ids: 'title', then one id per index of range(len - 1)
\* Mutant: a column id is derived from the column's name.
collection_schema_ids_by_name(schema) ==
    <<"title">> \o [i \in 1..(IF Len(schema) > 0 THEN Len(schema) - 1 ELSE 0)
                       |-> "x" \o schema[i + 1].name]

collection_schema_ids(schema) ==
    <<"title">> \o [i \in 1..(IF Len(schema) > 0 THEN Len(schema) - 1 ELSE 0)
                       |-> "x" \o format_0_4x(i - 1)]

\* zip(a, b) as the ordered pairs it yields
zip(a, b) == [k \in 1..Min(Len(a), Len(b)) |-> <<a[k], b[k]>>]

\* The schema of a collection just created by create_record
PlaceholderSchema == << <<"title", [text |-> "_", type |-> "text"]>> >>

sync_collection_schema(R, b, expected_schema) ==
    IF R.blocks[b].collection.schema = expected_schema
    THEN R
    ELSE Log([R EXCEPT !.blocks[b].collection.schema = expected_schema],
             <<"set_schema", b>>)

create_collection(R, b) ==
    Log(Log([R EXCEPT !.blocks[b].collection =
                 [exists |-> TRUE, schema |-> PlaceholderSchema,
                  rows |-> <<>>, nextrow |-> 1]],
            <<"create_collection", b>>),
        <<"add_view", b>>)

\* The property bag of a row just added: no column holds a value
NoValues == <<>>

\* Mutant: the stored value is never found.
get_property_unset(row, col) == "None"

\* row_block.get_property(schema_id)
get_property(row, col) ==
    IF col \in DOMAIN row.vals THEN row.vals[col] ELSE "None"

\* extra_row.remove()
remove_row(R, b, rid) ==
    Log([R EXCEPT !.blocks[b].collection.rows =
             SelectSeq(@, LAMBDA r : r.id # rid)],
        <<"remove_row", b, rid>>)

RECURSIVE remove_rows(_, _, _)
remove_rows(R, b, rs) ==
    IF rs = <<>> THEN R
    ELSE remove_rows(remove_row(R, b, Head(rs).id), b, Tail(rs))

\* block.collection.add_row(): a new row, after the existing ones
add_row(R, b) ==
    LET rid == R.blocks[b].collection.nextrow
    IN Log([R EXCEPT !.blocks[b].collection.rows =
                         Append(@, [id |-> rid, vals |-> NoValues]),
                     !.blocks[b].collection.nextrow = rid + 1],
           <<"add_row", b, rid>>)

RowById(R, b, rid) ==
    LET rs == R.blocks[b].collection.rows
    IN rs[CHOOSE k \in DOMAIN rs : rs[k].id = rid]

\* row_block.set_property(schema_id, prop_value)
set_property(R, b, rid, col, val) ==
    Log([R EXCEPT !.blocks[b].collection.rows =
             [k \in DOMAIN @ |-> IF @[k].id = rid
                                 THEN [@[k] EXCEPT !.vals =
                                          [c \in DOMAIN @ \cup {col} |->
                                              IF c = col THEN val ELSE @[c]]]
                                 ELSE @[k]]],
        <<"set_property", b, rid, col>>)

\* lines 149-151: write each zipped value that differs from the stored one
RECURSIVE sync_row_values(_, _, _, _)
sync_row_values(R, b, rid, pairs) ==
    IF pairs = <<>> THEN R
    ELSE LET col == Head(pairs)[1]
             val == Head(pairs)[2]
             R1 == IF get_property(RowById(R, b, rid), col) # val
                   THEN set_property(R, b, rid, col, val)
                   ELSE R
         IN sync_row_values(R1, b, rid, Tail(pairs))

\* lines 138-151: the loop over collection_rows; existing is the list that
\* get_rows() returned and k the number of rows already taken from it.
RECURSIVE sync_rows_loop(_, _, _, _, _, _)
sync_rows_loop(R, b, ids, existing, rows, k) ==
    IF rows = <<>> THEN R
    ELSE LET reuse == k < Len(existing)
             R1 == IF reuse THEN R ELSE add_row(R, b)
             rid == IF reuse THEN existing[k + 1].id
                    ELSE R.blocks[b].collection.nextrow
             row == IF Len(Head(rows)) > Len(ids)
                    THEN SubSeq(Head(rows), 1, Len(ids))
                    ELSE Head(rows)
             R2 == sync_row_values(R1, b, rid, zip(ids, row))
         IN sync_rows_loop(R2, b, ids, existing, Tail(rows),
                           IF reuse THEN k + 1 ELSE k)

\* Mutant: the slice of extra rows starts one row late.
extra_rows_off_by_one(existing_rows, collection_rows) ==
    SubSeq(existing_rows, Len(collection_rows) + 2, Len(existing_rows))

\* line 133: existing_rows[len(collection_rows):]
extra_rows(existing_rows, collection_rows) ==
    SubSeq(existing_rows, Len(collection_rows) + 1, Len(existing_rows))

sync_collection_rows(R, b, collection_schema, collection_rows) ==
    LET R1 == IF ~R.blocks[b].collection.exists THEN create_collection(R, b) ELSE R
        ids == collection_schema_ids(collection_schema)
        R2 == sync_collection_schema(R1, b, zip(ids, collection_schema))
        existing == R2.blocks[b].collection.rows
        R3 == remove_rows(R2, b, extra_rows(existing, collection_rows))
    IN sync_rows_loop(R3, b, ids, existing, collection_rows, 0)

----------------------------------------------------------------------------
(* Remote tree reconciler. *)

\* A block descriptor as the renderer emits it; an absent title, children,
\* schema or rows is the empty sequence (None and [] are both falsy).
Desc(type, props, title, children, schema, rows) ==
    [type |-> type, props |-> props, title |-> title, children |-> children,
     schema |-> schema, rows |-> rows]

\* Mutant: the properties of the descriptor are not compared.
block_matches_type_only(b, markdown_block_type, markdown_block) ==
    markdown_block_type = b.type

block_matches_markdown_block(b, markdown_block_type, markdown_block) ==
    /\ markdown_block_type = b.type
    /\ \A i \in DOMAIN markdown_block :
          getattr(b, markdown_block[i][1]) = markdown_block[i][2]

\* lines 167-175: index in the cursor of the first child that matches, 0 when
\* the iterator is exhausted first
FirstMatch(R, cur, d) ==
    LET S == {i \in DOMAIN cur :
                 block_matches_markdown_block(R.blocks[cur[i]], d.type, d.props)}
    IN IF S = {} THEN 0 ELSE CHOOSE i \in S : \A j \in S : i <= j

\* Mutant: the iterator is not consumed.
children_iter_restarted(cur, m) == cur

\* lines 167-175: what next() has left of children_iter after the search; a
\* search that met StopIteration leaves nothing
children_iter_after(cur, m) ==
    IF m > 0 THEN SubSeq(cur, m + 1, Len(cur)) ELSE <<>>

\* Mutant: an empty title is written like any other.
sync_title_also_empty(R, child, markdown_contents) ==
    IF R.blocks[child].title # markdown_contents
    THEN set_title(R, child, markdown_contents)
    ELSE R

\* lines 177-182: a title that is not empty is written where it differs
sync_title(R, child, markdown_contents) ==
    IF markdown_contents # <<>> /\ R.blocks[child].title # markdown_contents
    THEN set_title(R, child, markdown_contents)
    ELSE R

RECURSIVE sync_markdown_blocks_to_block(_, _, _)
RECURSIVE sync_loop(_, _, _, _, _)
RECURSIVE sync_one(_, _, _, _)

\* lines 159-195: the loop body for one descriptor.  Yields the remote state,
\* what is left of children_iter, and the child used.
sync_one(R, d, block, cur) ==
    LET m == FirstMatch(R, cur, d)
        R1 == IF m > 0 THEN R ELSE add_new(R, block, d.type, d.props)
        child == IF m > 0 THEN cur[m] ELSE Len(R.blocks) + 1
        rest == children_iter_after(cur, m)
        R2 == sync_title(R1, child, d.title)
        R3 == IF d.type = "collection_view"
              THEN sync_collection_rows(R2, child, d.schema, d.rows)
              ELSE R2
        R4 == IF d.children # <<>>
              THEN sync_markdown_blocks_to_block(R3, d.children, child)
              ELSE IF Len(R3.blocks[child].content) > 0
                   THEN remove_all(R3, R3.blocks[child].content)
                   ELSE R3
    IN [R |-> R4, cursor |-> rest, child |-> child, reused |-> m > 0]

sync_loop(R, descs, block, cur, tch) ==
    IF descs = <<>> THEN [R |-> R, touched |-> tch]
    ELSE LET s == sync_one(R, Head(descs), block, cur)
         IN sync_loop(s.R, Tail(descs), block, s.cursor, tch \cup {s.child})

\* Mutant: the cleanup does not spare pages.
remove_untouched_pages_too(R, block, tch) ==
    remove_all(R, SelectSeq(R.blocks[block].content, LAMBDA c : c \notin tch))

\* lines 198-201: every untouched child that is not a page is removed
remove_untouched(R, block, tch) ==
    remove_all(R, SelectSeq(R.blocks[block].content,
                            LAMBDA c : R.blocks[c].type # "page" /\ c \notin tch))

sync_markdown_blocks_to_block(R, markdown_blocks, block) ==
    LET s == sync_loop(R, markdown_blocks, block, R.blocks[block].content, {})
    IN remove_untouched(s.R, block, s.touched)

----------------------------------------------------------------------------
(* Inputs of the reconciler's specification. *)

T1 == << <<"Hello", <<>> >> >>
T2 == << <<"Bye", << <<"b">> >> >> >>

CodeProps(lang) == << <<"language", lang>>, <<"title_plaintext", "x = 1">> >>

TextD(t) == Desc("text", <<>>, t, <<>>, <<>>, <<>>)
CodeD(lang) == Desc("code", CodeProps(lang), <<>>, <<>>, <<>>, <<>>)
ListD(t, kids) == Desc("bulleted_list", <<>>, t, kids, <<>>, <<>>)

ReconDescs ==
    {TextD(T1), TextD(T2), CodeD("Python"), CodeD("Plain Text"),
     ListD(T1, <<>>), ListD(<<>>, <<TextD(T2)>>)}

\* An existing remote block, with the blocks below it
Shape(type, props, title, kids) ==
    [type |-> type, props |-> props, title |-> title, kids |-> kids]

TextS(t) == Shape("text", <<>>, t, <<>>)
PageS(name) == Shape("page", <<>>, << <<name>> >>, <<>>)
CodeS(lang) == Shape("code", CodeProps(lang), <<>>, <<>>)
ListS(t, kids) == Shape("bulleted_list", <<>>, t, kids)

NestedKids ==
    {<<>>, <<TextS(T2)>>, <<PageS("Sub")>>, <<PageS("Sub"), TextS(T1)>>}

ReconShapes ==
    {TextS(T1), TextS(T2), CodeS("Python"), PageS("Guide")}
        \cup {ListS(T1, k) : k \in NestedKids}

\* The remote tree that holds the given shapes below a block
RECURSIVE Build(_, _, _)
Build(R, par, shapes) ==
    IF shapes = <<>> THEN R
    ELSE LET s == Head(shapes)
             id == Len(R.blocks) + 1
             R1 == add_new(R, par, s.type, s.props)
             R2 == [R1 EXCEPT !.blocks[id].title = s.title]
             R3 == Build(R2, id, s.kids)
         IN Build(R3, par, Tail(shapes))

Fresh(R) == [R EXCEPT !.ops = <<>>]

----------------------------------------------------------------------------
(* The reconciler, one descriptor per step. *)

ReconInit ==
    /\ \E kids \in SeqsUpTo(ReconShapes, MaxKids) :
          remote = Fresh(Build(EmptyRemote, Root, kids))
    /\ targets \in SeqsUpTo(ReconDescs, MaxTargets)
    /\ parent = Root
    /\ pc = "call"
    /\ pre = remote
    /\ idx = 1
    /\ cursor = <<>>
    /\ touched = {}
    /\ matched = <<>>
    /\ table = [schema |-> <<>>, rows |-> <<>>]
    /\ NoDir
    /\ NoRender

\* lines 155-156
ReconEnter ==
    /\ pc = "call"
    /\ cursor' = remote.blocks[parent].content
    /\ touched' = {}
    /\ pc' = "loop"
    /\ UNCHANGED <<remote, pre, targets, parent, idx, matched, table>>
    /\ UNCHANGED dirVars
    /\ UNCHANGED renderVars

\* lines 158-195, one iteration
ReconStep ==
    /\ pc = "loop"
    /\ idx <= Len(targets)
    /\ LET s == sync_one(remote, targets[idx], parent, cursor)
       IN /\ remote' = s.R
          /\ cursor' = s.cursor
          /\ touched' = touched \cup {s.child}
          /\ matched' = Append(matched, [child |-> s.child, reused |-> s.reused])
    /\ idx' = idx + 1
    /\ UNCHANGED <<pc, pre, targets, parent, table>>
    /\ UNCHANGED dirVars
    /\ UNCHANGED renderVars

\* lines 198-201
ReconCleanup ==
    /\ pc = "loop"
    /\ idx > Len(targets)
    /\ remote' = remove_untouched(remote, parent, touched)
    /\ pc' = "done"
    /\ UNCHANGED <<pre, targets, parent, idx, cursor, touched, matched, table>>
    /\ UNCHANGED dirVars
    /\ UNCHANGED renderVars

ReconNext == ReconEnter \/ ReconStep \/ ReconCleanup

SpecRecon == ReconInit /\ [][ReconNext]_vars

----------------------------------------------------------------------------
(* The collection synchronizer: a table is synced onto a collection view   *)
(* block, then synced again with its header cells renamed.                 *)

Col(name) == [name |-> name, type |-> "text"]

Schemas ==
    {<<Col("Name")>>, <<Col("Name"), Col("Age")>>, <<Col("Nom"), Col("Age")>>,
     <<Col("Name"), Col("Years")>>, <<Col("Name"), Col("Age"), Col("City")>>}

RowChoices ==
    {<<"Alice">>, <<"Alice", "30">>, <<"Bob", "41">>, <<"Bob", "41", "Oslo", "extra">>}

TableBlock == 2

InitVals == {NoValues, [title |-> "Alice", x0000 |-> "30"], [title |-> "Zed"]}

InitSchemas ==
    {PlaceholderSchema,
     zip(<<"title", "x0000">>, <<Col("Name"), Col("Age")>>)}

InitRowSeqs ==
    UNION {{[k \in 1..n |-> [id |-> k, vals |-> f[k]]] : f \in [1..n -> InitVals]}
           : n \in 0..MaxRows}

InitCollections ==
    {NoCollection} \cup
    {[exists |-> TRUE, schema |-> s, rows |-> rs, nextrow |-> Len(rs) + 1]
        : s \in InitSchemas, rs \in InitRowSeqs}

RowsRemote(c) ==
    [Fresh(add_new(EmptyRemote, Root, "collection_view", <<>>))
        EXCEPT !.blocks[TableBlock].collection = c]

RowsInit ==
    /\ remote \in {RowsRemote(c) : c \in InitCollections}
    /\ pc = "call"
    /\ pre = remote
    /\ table = [schema |-> <<>>, rows |-> <<>>]
    /\ targets = <<>>
    /\ parent = Root
    /\ idx = 1
    /\ cursor = <<>>
    /\ touched = {}
    /\ matched = <<>>
    /\ NoDir
    /\ NoRender

\* line 187: sync_collection_rows(child_block, collection_schema, collection_rows)
RowsSync ==
    /\ pc = "call"
    /\ \E s \in Schemas, rs \in SeqsUpTo(RowChoices, MaxRows) :
          /\ table' = [schema |-> s, rows |-> rs]
          /\ remote' = sync_collection_rows(Fresh(remote), TableBlock, s, rs)
    /\ pre' = remote
    /\ pc' = "synced"
    /\ UNCHANGED reconVars
    /\ UNCHANGED dirVars
    /\ UNCHANGED renderVars

\* the same table synced again, header cells renamed, column count kept
RowsRename ==
    /\ pc = "synced"
    /\ \E s \in Schemas :
          /\ Len(s) = Len(table.schema)
          /\ s # table.schema
          /\ table' = [table EXCEPT !.schema = s]
          /\ remote' = sync_collection_rows(Fresh(remote), TableBlock, s, table.rows)
    /\ pre' = remote
    /\ pc' = "renamed"
    /\ UNCHANGED reconVars
    /\ UNCHANGED dirVars
    /\ UNCHANGED renderVars

RowsNext == RowsSync \/ RowsRename

SpecRows == RowsInit /\ [][RowsNext]_vars

----------------------------------------------------------------------------
(* Strings: os.path, str and urllib.parse as the mapper uses them. *)

Char(s, i) == SubSeq(s, i, i)

Contains(s, ch) == \E i \in 1..Len(s) : Char(s, i) = ch

\* s.rfind(ch), 1-based; 0 when ch is not in s
LastIndexOf(s, ch) ==
    LET S == {i \in 1..Len(s) : Char(s, i) = ch}
    IN IF S = {} THEN 0 ELSE CHOOSE i \in S : \A j \in S : j <= i

\* s.find(ch), 1-based; 0 when ch is not in s
IndexOf(s, ch) ==
    LET S == {i \in 1..Len(s) : Char(s, i) = ch}
    IN IF S = {} THEN 0 ELSE CHOOSE i \in S : \A j \in S : i <= j

UpperLetters == "ABCDEFGHIJKLMNOPQRSTUVWXYZ"
LowerLetters == "abcdefghijklmnopqrstuvwxyz"
SchemeChars == UpperLetters \o LowerLetters \o "0123456789+-."

LowerChar(ch) ==
    IF Contains(UpperLetters, ch) THEN Char(LowerLetters, IndexOf(UpperLetters, ch)) ELSE ch

UpperChar(ch) ==
    IF Contains(LowerLetters, ch) THEN Char(UpperLetters, IndexOf(LowerLetters, ch)) ELSE ch

RECURSIVE lower(_)
lower(s) == IF s = "" THEN "" ELSE LowerChar(Head(s)) \o lower(Tail(s))

\* str.capitalize(): the first character upper-cased, the rest lower-cased
capitalize(s) == IF s = "" THEN "" ELSE UpperChar(Head(s)) \o lower(Tail(s))

RECURSIVE replace(_, _, _)
replace(s, old, new) ==
    IF s = "" THEN ""
    ELSE (IF Head(s) = old THEN new ELSE Head(s)) \o replace(Tail(s), old, new)

startswith(s, ch) == s # "" /\ Head(s) = ch

\* os.path.splitext: the extension starts at the last dot of the last path
\* component, unless only dots precede it in that component
splitext(p) ==
    LET sep == LastIndexOf(p, "/")
        dot == LastIndexOf(p, ".")
    IN IF dot > sep /\ \E i \in (sep + 1)..(dot - 1) : Char(p, i) # "."
       THEN <<SubSeq(p, 1, dot - 1), SubSeq(p, dot, Len(p))>>
       ELSE <<p, "">>

\* os.path.dirname
dirname(p) ==
    LET sep == LastIndexOf(p, "/")
    IN IF sep <= 1 THEN SubSeq(p, 1, sep) ELSE SubSeq(p, 1, sep - 1)

\* os.path.join(a, b)
join(a, b) ==
    IF startswith(b, "/") THEN b
    ELSE IF a = "" \/ Char(a, Len(a)) = "/" THEN a \o b
    ELSE a \o "/" \o b

RECURSIVE split(_, _)
split(s, acc) ==
    LET i == IndexOf(s, "/")
    IN IF i = 0 THEN <<acc \o s>>
       ELSE <<acc \o SubSeq(s, 1, i - 1)>> \o split(SubSeq(s, i + 1, Len(s)), "")

RECURSIVE normalize(_, _)
normalize(parts, out) ==
    IF parts = <<>> THEN out
    ELSE LET c == Head(parts)
         IN normalize(Tail(parts),
                      IF c = "" \/ c = "." THEN out
                      ELSE IF c = ".." THEN SubSeq(out, 1, Len(out) - (IF out = <<>> THEN 0 ELSE 1))
                      ELSE Append(out, c))

RECURSIVE joinparts(_)
joinparts(parts) ==
    IF parts = <<>> THEN "" ELSE "/" \o Head(parts) \o joinparts(Tail(parts))

\* os.path.realpath of an absolute path in a tree without symbolic links
realpath(p) ==
    LET parts == normalize(split(p, ""), <<>>)
    IN IF parts = <<>> THEN "/" ELSE joinparts(parts)

\* urlparse(target).scheme is not empty
has_scheme(target) ==
    LET i == IndexOf(target, ":")
    IN /\ i > 1
       /\ Contains(UpperLetters \o LowerLetters, Head(target))
       /\ \A k \in 1..(i - 1) : Contains(SchemeChars, Char(target, k))

----------------------------------------------------------------------------
(* Markdown renderer (markdown.py).  The parser is a black box: a document *)
(* is the parse tree it produces.                                          *)

NOTION_CODE_LANGUAGES ==
    <<"ABAP", "Arduino", "Bash", "BASIC", "C", "Clojure", "CoffeeScript", "C++",
      "C#", "CSS", "Dart", "Diff", "Docker", "Elixir", "Elm", "Erlang", "Flow",
      "Fortran", "F#", "Gherkin", "GLSL", "Go", "GraphQL", "Groovy", "Haskell",
      "HTML", "Java", "JavaScript", "JSON", "Kotlin", "LaTeX", "Less", "Lisp",
      "LiveScript", "Lua", "Makefile", "Markdown", "Markup", "MATLAB", "Nix",
      "Objective-C", "OCaml", "Pascal", "Perl", "PHP", "Plain Text",
      "PowerShell", "Prolog", "Python", "R", "Reason", "Ruby", "Rust", "Sass",
      "Scala", "Scheme", "Scss", "Shell", "SQL", "Swift", "TypeScript", "VB.Net",
      "Verilog", "VHDL", "Visual Basic", "WebAssembly", "XML", "YAML">>

\* NOTION_CODE_LANGUAGES_MAPPING.get(language.lower(), "Plain Text")
match_lang(language) ==
    LET l == lower(language)
        S == {i \in DOMAIN NOTION_CODE_LANGUAGES : lower(NOTION_CODE_LANGUAGES[i]) = l}
    IN IF S = {} THEN "Plain Text"
       ELSE NOTION_CODE_LANGUAGES[CHOOSE i \in S : \A j \in S : j <= i]

NOTION_STYLE_STRIKETHROUGH == "s"
NOTION_STYLE_EMPHASIS == "i"
NOTION_STYLE_STRONG == "b"
NOTION_STYLE_CODE == "c"
NOTION_STYLE_ANCHOR == "a"

RECURSIVE flatten(_)
flatten(lists) == IF lists = <<>> THEN <<>> ELSE Head(lists) \o flatten(Tail(lists))

RECURSIVE merge_textblocks_from(_, _)
merge_textblocks_from(previous, blocks) ==
    IF blocks = <<>> THEN <<previous>>
    ELSE LET block == Head(blocks)
         IN IF previous.type = "text" /\ block.type = "text"
            THEN merge_textblocks_from([previous EXCEPT !.title = @ \o block.title],
                                       Tail(blocks))
            ELSE <<previous>> \o merge_textblocks_from(block, Tail(blocks))

merge_adjacent_textblocks(blocks) ==
    IF blocks = <<>> THEN <<>> ELSE merge_textblocks_from(Head(blocks), Tail(blocks))

RECURSIVE merge_tokens_from(_, _)
merge_tokens_from(previous, tokens) ==
    IF tokens = <<>> THEN <<previous>>
    ELSE LET token == Head(tokens)
         IN IF token[2] = previous[2]
            THEN merge_tokens_from(<<previous[1] \o token[1], previous[2]>>, Tail(tokens))
            ELSE <<previous>> \o merge_tokens_from(token, Tail(tokens))

\* merge_adjacent_tokens that stops after the first pair
merge_adjacent_tokens_first_pair(tokens) ==
    IF Len(tokens) >= 2 /\ tokens[1][2] = tokens[2][2]
    THEN <<<<tokens[1][1] \o tokens[2][1], tokens[1][2]>>>> \o SubSeq(tokens, 3, Len(tokens))
    ELSE tokens

merge_adjacent_tokens(tokens) ==
    IF tokens = <<>> THEN <<>> ELSE merge_tokens_from(Head(tokens), Tail(tokens))

without_notion_text(blocks) == SelectSeq(blocks, LAMBDA b : b.type # "text")

only_notion_text(blocks) ==
    merge_adjacent_tokens(
        flatten([i \in DOMAIN SelectSeq(blocks, LAMBDA b : b.type = "text")
                    |-> SelectSeq(blocks, LAMBDA b : b.type = "text")[i].title]))

collect_notion_text(tokens, block_type) ==
    <<Desc(block_type, <<>>, only_notion_text(tokens), <<>>, <<>>, <<>>)>>
        \o without_notion_text(tokens)

RECURSIVE notion_as_plain_text(_)
notion_as_plain_text(tokens) ==
    IF tokens = <<>> THEN "" ELSE Head(tokens)[1] \o notion_as_plain_text(Tail(tokens))

\* apply_style with the marker [style, *style_args]
apply_style(notion_tokens, marker) ==
    [i \in DOMAIN notion_tokens |->
        <<notion_tokens[i][1], Append(notion_tokens[i][2], marker)>>]

as_inline_block(title) == Desc("text", <<>>, title, <<>>, <<>>, <<>>)

as_inline_style_block(tokens, marker) ==
    as_inline_block(apply_style(only_notion_text(tokens), marker))

\* A node of the parse tree: text holds content, target, language, leader,
\* title or src as the node kind has it
Node(kind, text, level, header, children) ==
    [kind |-> kind, text |-> text, level |-> level, header |-> header,
     children |-> children]

Document(kids) == Node("Document", "", 0, <<>>, kids)
Heading(level, kids) == Node("Heading", "", level, <<>>, kids)
Paragraph(kids) == Node("Paragraph", "", 0, <<>>, kids)
Quote(kids) == Node("Quote", "", 0, <<>>, kids)
List(kids) == Node("List", "", 0, <<>>, kids)
ListItem(leader, kids) == Node("ListItem", leader, 0, <<>>, kids)
BlockCode(language, kids) == Node("BlockCode", language, 0, <<>>, kids)
ThematicBreak == Node("ThematicBreak", "", 0, <<>>, <<>>)
Table(header, rows) == Node("Table", "", 0, <<header>>, rows)
TableRow(cells) == Node("TableRow", "", 0, <<>>, cells)
TableCell(kids) == Node("TableCell", "", 0, <<>>, kids)
Strong(kids) == Node("Strong", "", 0, <<>>, kids)
Emphasis(kids) == Node("Emphasis", "", 0, <<>>, kids)
InlineCode(kids) == Node("InlineCode", "", 0, <<>>, kids)
Strikethrough(kids) == Node("Strikethrough", "", 0, <<>>, kids)
Link(target, kids) == Node("Link", target, 0, <<>>, kids)
RawText(content) == Node("RawText", content, 0, <<>>, <<>>)
EscapeSequence(kids) == Node("EscapeSequence", "", 0, <<>>, kids)
LineBreak == Node("LineBreak", "", 0, <<>>, <<>>)

HeaderTypes == <<"header", "sub_header", "sub_sub_header">>

IsDigit(ch) == Contains("0123456789", ch)

RECURSIVE render(_)

\* NotionRenderer.__render_multiple
render_multiple(tokens) == flatten([i \in DOMAIN tokens |-> render(tokens[i])])

render_block_code(token) ==
    LET children == render_multiple(token.children)
    IN <<Desc("code",
              << <<"language", match_lang(token.text)>>,
                 <<"title_plaintext", notion_as_plain_text(only_notion_text(children))>> >>,
              <<>>, <<>>, <<>>, <<>>)>>
          \o without_notion_text(children)

render_heading(token) ==
    LET level == IF token.level > 3 THEN 3 ELSE token.level
    IN collect_notion_text(render_multiple(token.children), HeaderTypes[level])

render_list_item(token) ==
    LET children == render_multiple(token.children)
    IN <<Desc(IF token.text # "" /\ IsDigit(Head(token.text))
              THEN "numbered_list" ELSE "bulleted_list",
              <<>>, only_notion_text(children), without_notion_text(children),
              <<>>, <<>>)>>

render_table(token) ==
    LET cells(row) == render(row)
        texts(row) == [i \in DOMAIN cells(row) |-> notion_as_plain_text(cells(row)[i].title)]
        header_row == texts(token.header[1])
    IN <<Desc("collection_view", <<>>, <<>>, <<>>,
              [i \in DOMAIN header_row |-> [name |-> header_row[i], type |-> "text"]],
              [r \in DOMAIN token.children |-> texts(token.children[r])])>>

\* NotionRenderer.render_link: the anchor carries token.target (the node's
\* text) as the parser gave it
render_link(token) ==
    <<as_inline_style_block(render_multiple(token.children),
                            <<NOTION_STYLE_ANCHOR, token.text>>)>>

\* NotionRenderer.render: the handler of the node's class; always a list
render(token) ==
    CASE token.kind = "Document" -> render_multiple(token.children)
      [] token.kind = "BlockCode" -> render_block_code(token)
      [] token.kind = "ThematicBreak" -> <<Desc("divider", <<>>, <<>>, <<>>, <<>>, <<>>)>>
      [] token.kind = "Heading" -> render_heading(token)
      [] token.kind = "Quote" -> collect_notion_text(render_multiple(token.children), "quote")
      [] token.kind = "Paragraph" ->
            merge_adjacent_textblocks(render_multiple(token.children))
      [] token.kind = "List" -> render_multiple(token.children)
      [] token.kind = "ListItem" -> render_list_item(token)
      [] token.kind = "Table" -> render_table(token)
      [] token.kind = "TableRow" -> render_multiple(token.children)
      [] token.kind = "TableCell" ->
            <<as_inline_block(only_notion_text(render_multiple(token.children)))>>
      [] token.kind = "Strong" ->
            <<as_inline_style_block(render_multiple(token.children), <<NOTION_STYLE_STRONG>>)>>
      [] token.kind = "Emphasis" ->
            <<as_inline_style_block(render_multiple(token.children), <<NOTION_STYLE_EMPHASIS>>)>>
      [] token.kind = "InlineCode" ->
            <<as_inline_style_block(render_multiple(token.children), <<NOTION_STYLE_CODE>>)>>
      [] token.kind = "Strikethrough" ->
            <<as_inline_style_block(render_multiple(token.children),
                                    <<NOTION_STYLE_STRIKETHROUGH>>)>>
      [] token.kind = "RawText" -> <<as_inline_block(<< <<token.text, <<>> >> >>)>>
      [] token.kind = "Link" -> render_link(token)
      [] token.kind = "EscapeSequence" -> render_multiple(token.children)
      [] token.kind = "LineBreak" -> <<as_inline_block(<< <<" ", <<>> >> >>)>>

\* markdown.py, convert(markdown): the document rendered by a NotionRenderer.
\* It has no link_resolver parameter, and nothing hands one to the renderer.
convert(markdown) == render(markdown)

\* def convert(markdown): the names a call of convert can bind
convert_parameters == {"markdown"}

\* A Python call binds when every keyword it passes names a parameter; a call
\* that does not bind raises TypeError before the body runs
call_binds(parameters, keywords) == keywords \subseteq parameters

----------------------------------------------------------------------------
(* The renderer on its own: convert is applied to a document, and           *)
(* merge_adjacent_tokens to a list of styled runs and to its own result.    *)

Inlines ==
    {RawText("a"), RawText("b"), LineBreak,
     Strong(<<RawText("c")>>), Emphasis(<<RawText("d"), Strong(<<RawText("e")>>)>>),
     Link("./other.md", <<RawText("f")>>)}

RenderDocs ==
    UNION {{Document(<<Paragraph(k)>>), Document(<<Heading(2, k)>>),
            Document(<<Quote(<<Paragraph(k)>>)>>),
            Document(<<List(<<ListItem("-", <<Paragraph(k)>>)>>)>>),
            Document(<<List(<<ListItem("1.", <<Paragraph(k),
                                               List(<<ListItem("-", <<Paragraph(k)>>)>>)>>)>>)>>)}
           : k \in SeqsUpTo(Inlines, MaxInline)}

RunChoices ==
    {<<"a", <<>> >>, <<"b", <<>> >>, <<"", <<>> >>, <<"c", << <<"b">> >> >>,
     <<"d", << <<"b">>, <<"i">> >> >>}

RenderInit ==
    /\ \/ tree \in RenderDocs /\ runs = <<>>
       \/ tree = <<>> /\ runs \in SeqsUpTo(RunChoices, MaxRuns)
    /\ rendered = <<>>
    /\ merged = <<>>
    /\ pc = "input"
    /\ remote = EmptyRemote
    /\ pre = EmptyRemote
    /\ targets = <<>>
    /\ parent = Root
    /\ idx = 1
    /\ cursor = <<>>
    /\ touched = {}
    /\ matched = <<>>
    /\ table = [schema |-> <<>>, rows |-> <<>>]
    /\ NoDir

\* markdown_blocks = convert(markdown)
RenderConvert ==
    /\ pc = "input"
    /\ tree # <<>>
    /\ rendered' = convert(tree)
    /\ pc' = "rendered"
    /\ UNCHANGED <<remote, pre, table, tree, runs, merged>>
    /\ UNCHANGED reconVars
    /\ UNCHANGED dirVars

\* list(merge_adjacent_tokens(x)), of the runs and then of the last result
RenderMerge ==
    /\ tree = <<>>
    /\ Len(merged) < 2
    /\ merged' = Append(merged, merge_adjacent_tokens(
                                    IF merged = <<>> THEN runs ELSE merged[Len(merged)]))
    /\ pc' = "merged"
    /\ UNCHANGED <<remote, pre, table, tree, rendered, runs>>
    /\ UNCHANGED reconVars
    /\ UNCHANGED dirVars

RenderNext == RenderConvert \/ RenderMerge

SpecRender == RenderInit /\ [][RenderNext]_vars

----------------------------------------------------------------------------
(* Directory-to-page mapper and the sync pass (__init__.py, 24-62, 204-305) *)

\* A local directory entry; listdir yields a directory's entries in order.
\* A file holds the name of its text, FileContents the parsed texts.
File(name, doc) == [name |-> name, isdir |-> FALSE, doc |-> doc, entries |-> <<>>]
Dir(name, entries) == [name |-> name, isdir |-> TRUE, doc |-> "", entries |-> entries]

DocHello == Document(<<Paragraph(<<RawText("Hello")>>)>>)

DocIndex ==
    Document(<<Paragraph(<<RawText("Hello")>>),
               List(<<ListItem("-", <<Paragraph(<<RawText("a")>>),
                                      List(<<ListItem("-", <<Paragraph(<<RawText("b")>>)>>)>>)>>)>>)>>)

DocNotes ==
    Document(<<Paragraph(<<Link("./other.md", <<RawText("other")>>),
                           RawText(" and "),
                           Link("https://example.com/a.md", <<RawText("site")>>)>>)>>)

DocOther ==
    Document(<<Heading(1, <<RawText("Other")>>),
               Table(TableRow(<<TableCell(<<RawText("Name")>>), TableCell(<<RawText("Age")>>)>>),
                     <<TableRow(<<TableCell(<<RawText("Alice")>>),
                                  TableCell(<<RawText("30")>>)>>)>>)>>)

DocSetup ==
    Document(<<Heading(1, <<RawText("Setup")>>),
               Paragraph(<<Link("../notes.md", <<RawText("up")>>)>>)>>)

FileContents ==
    [hello |-> DocHello, index |-> DocIndex, notes |-> DocNotes,
     other |-> DocOther, setup |-> DocSetup]

\* os.path.realpath(directory) of the docs_path argument
DocsRoot == "/docs"

\* open(filename).read(), front matter stripped and parsed: the path is
\* followed from the docs root, one component at a time
RECURSIVE lookup(_, _)
lookup(entries, parts) ==
    LET found == SelectSeq(entries, LAMBDA e : e.name = Head(parts))
    IN IF found = <<>> THEN <<>>
       ELSE IF Len(parts) = 1
       THEN (IF found[1].isdir THEN <<>> ELSE <<FileContents[found[1].doc]>>)
       ELSE lookup(found[1].entries, Tail(parts))

read_file(entries, directory, filename) ==
    lookup(entries, split(SubSeq(filename, Len(directory) + 2, Len(filename)), ""))

\* block.title of a page: its title property as plain text
page_title(b) == notion_as_plain_text(b.title)

\* files_to_pages[key] = value: a new key goes last, a known key keeps its place
dict_set(d, key, value) ==
    IF \E i \in DOMAIN d : d[i][1] = key
    THEN [i \in DOMAIN d |-> IF d[i][1] = key THEN <<key, value>> ELSE d[i]]
    ELSE Append(d, <<key, value>>)

RECURSIVE dict_update(_, _)
dict_update(d, other) ==
    IF other = <<>> THEN d
    ELSE dict_update(dict_set(d, Head(other)[1], Head(other)[2]), Tail(other))

\* links.get(target_path): the block, 0 for None
dict_get(d, key) ==
    IF \E i \in DOMAIN d : d[i][1] = key
    THEN d[CHOOSE i \in DOMAIN d : d[i][1] = key][2]
    ELSE 0

\* Mutant: every entry is given a new page, found or not.
infer_block_always_new(R, root_block, path) ==
    LET title == capitalize(replace(replace(splitext(path)[1], "-", " "), "_", " "))
        R1 == add_new(R, root_block, "page", <<>>)
    IN [R |-> [R1 EXCEPT !.blocks[Len(R1.blocks)].title = << <<title, <<>> >> >>],
        block |-> Len(R1.blocks)]

\* infer_block: the block for a directory entry, 0 for None
infer_block(R, root_block, path) ==
    LET name == splitext(path)[1]
        ext == splitext(path)[2]
        title == capitalize(replace(replace(name, "-", " "), "_", " "))
        kids == R.blocks[root_block].content
        S == {i \in DOMAIN kids :
                 /\ R.blocks[kids[i]].type = "page"
                 /\ page_title(R.blocks[kids[i]]) = title}
        R1 == add_new(R, root_block, "page", <<>>)
    IN IF name = "index" THEN [R |-> R, block |-> root_block]
       ELSE IF ext # ".md" /\ ext # "" THEN [R |-> R, block |-> 0]
       ELSE IF S # {} THEN [R |-> R, block |-> kids[CHOOSE i \in S : \A j \in S : i <= j]]
       ELSE [R |-> [R1 EXCEPT !.blocks[Len(R1.blocks)].title = << <<title, <<>> >> >>],
             block |-> Len(R1.blocks)]

\* os.path.isfile(os.path.join(directory, name))
isfile(entries, name) ==
    \E i \in DOMAIN entries : entries[i].name = name /\ ~entries[i].isdir

RECURSIVE create_page_structure(_, _, _, _)
RECURSIVE map_entries(_, _, _, _, _, _)

\* lines 252-273: the loop over os.listdir(directory).  inferred collects the
\* blocks infer_block returned, in this directory and below.
map_entries(R, directory, listing, root_block, ftp, inf) ==
    IF listing = <<>> THEN [R |-> R, files_to_pages |-> ftp, inferred |-> inf]
    ELSE LET e == Head(listing)
             path == e.name
             rest == Tail(listing)
             ib == infer_block(R, root_block, path)
             full_path == realpath(join(directory, path))
             sub == create_page_structure(ib.R, full_path, e.entries, ib.block)
         IN IF startswith(path, ".")
            THEN map_entries(R, directory, rest, root_block, ftp, inf)
            ELSE IF lower(path) = "index.md" \/ lower(path) = "readme.md"
            THEN map_entries(R, directory, rest, root_block, ftp, inf)
            ELSE IF ib.block = 0
            THEN map_entries(R, directory, rest, root_block, ftp, inf)
            ELSE IF e.isdir
            THEN map_entries(sub.R, directory, rest, root_block,
                             dict_update(ftp, sub.files_to_pages),
                             inf \cup {ib.block} \cup sub.inferred)
            ELSE IF lower(splitext(full_path)[2]) = ".md"
            THEN map_entries(ib.R, directory, rest, root_block,
                             dict_set(ftp, full_path, ib.block), inf \cup {ib.block})
            ELSE map_entries(ib.R, directory, rest, root_block, ftp, inf \cup {ib.block})

\* lines 240-250: index.md, else README.md, else README.md once more
index_or_readme(directory, entries, root_block) ==
    LET index_path == realpath(join(directory, "index.md"))
        readme_path == realpath(join(directory, "README.md"))
        readme_lower_path == realpath(join(directory, "README.md"))
    IN IF isfile(entries, "index.md") THEN << <<index_path, root_block>> >>
       ELSE IF isfile(entries, "README.md") THEN << <<readme_path, root_block>> >>
       ELSE IF isfile(entries, "README.md") THEN << <<readme_lower_path, root_block>> >>
       ELSE <<>>

create_page_structure(R, directory, entries, root_block) ==
    map_entries(R, directory, entries, root_block,
                index_or_readme(directory, entries, root_block), {})

\* move_pages_to_end, lines 67-75: the pages that have a non-page after them
RECURSIVE pages_to_move(_, _, _, _)
pages_to_move(R, kids, pages_seen, to_move) ==
    IF kids = <<>> THEN to_move
    ELSE IF R.blocks[Head(kids)].type = "page"
    THEN pages_to_move(R, Tail(kids), Append(pages_seen, Head(kids)), to_move)
    ELSE pages_to_move(R, Tail(kids), <<>>, to_move \o pages_seen)

RECURSIVE move_all(_, _, _)
move_all(R, pages, block) ==
    IF pages = <<>> THEN R
    ELSE move_all(move_to_last(R, Head(pages), block), Tail(pages), block)

move_pages_to_end(R, block) ==
    move_all(R, pages_to_move(R, R.blocks[block].content, <<>>, <<>>), block)

\* lines 302-305: page children that are not in touched_pages are removed
prune_pages(R, block, touched_pages) ==
    remove_all(R, SelectSeq(R.blocks[block].content,
                            LAMBDA c : R.blocks[c].type = "page" /\ c \notin touched_pages))

\* block.get_browseable_url()
get_browseable_url(id) == "https://www.notion.so/" \o ToString(id)

\* sync_file_to_block.resolve_link, lines 212-228
resolve_link(filename, links, target) ==
    LET target_path == realpath(join(dirname(filename), target))
        block == dict_get(links, target_path)
    IN IF has_scheme(target) THEN target
       ELSE IF block = 0 THEN target
       ELSE get_browseable_url(block)

\* sync_file_to_block, lines 207-230: markdown_blocks, what convert returns
\* for the text of the file
file_markdown_blocks(entries, filename, links) ==
    convert(Head(read_file(entries, DocsRoot, filename)))

\* sync_file_to_block.  Line 230 calls convert(str(post),
\* link_resolver=resolve_link): when the call does not bind, the TypeError
\* leaves sync_file_to_block before anything is synced.
sync_file_to_block(R, entries, filename, block, links) ==
    IF call_binds(convert_parameters, {"link_resolver"})
    THEN [R |-> sync_markdown_blocks_to_block(
                    R, file_markdown_blocks(entries, filename, links), block),
          raised |-> FALSE]
    ELSE [R |-> R, raised |-> TRUE]

\* random_emoji: EMOJI_UNICODE, and the keys no forbidden pattern occurs in
EMOJI_UNICODE ==
    [k \in {":rocket:", ":books:", ":raised_hand:", ":child:", ":person_running:"}
        |-> "emoji " \o k]

forbidden_emoji_patterns == <<"child", "skin_tone", "person", "hand", "finger">>

contains_str(st, pattern) ==
    \E i \in 1..(Len(st) - Len(pattern) + 1) : SubSeq(st, i, i + Len(pattern) - 1) = pattern

random_emoji_choices ==
    {EMOJI_UNICODE[k] : k \in {key \in DOMAIN EMOJI_UNICODE :
        \A i \in DOMAIN forbidden_emoji_patterns :
            ~contains_str(key, forbidden_emoji_patterns[i])}}

\* line 293: random_emoji() is called for a page without an icon only
icon_choices(R, block) ==
    IF R.blocks[block].icon = "None" THEN random_emoji_choices ELSE {R.blocks[block].icon}

\* lines 289-290
lock_page(R, block) ==
    IF ~R.blocks[block].locked
    THEN Log([R EXCEPT !.blocks[block].locked = TRUE], <<"lock", block>>)
    ELSE R

\* lines 292-293
set_icon(R, block, emoji) ==
    IF R.blocks[block].icon = "None"
    THEN Log([R EXCEPT !.blocks[block].icon = emoji], <<"icon", block>>)
    ELSE R

\* line 284
touched_pages_of(ftp) == {ftp[i][2] : i \in DOMAIN ftp}

\* lines 287-305: the loop body for one (full_path, block) pair; an exception
\* of sync_file_to_block is caught nowhere and ends the pass
sort_and_clean(synced, ftp, block) ==
    IF synced.raised THEN synced
    ELSE [R |-> prune_pages(move_pages_to_end(synced.R, block), block,
                            touched_pages_of(ftp)),
          raised |-> FALSE]

sync_page(R, entries, ftp, full_path, block, emoji) ==
    sort_and_clean(
        sync_file_to_block(set_icon(lock_page(R, block), block, emoji),
                           entries, full_path, block, ftp),
        ftp, block)

----------------------------------------------------------------------------
(* The sync pass over a local tree, run twice: the second pass on the same *)
(* tree, or after one synced file was deleted locally.                     *)

\* The entries a root directory is drawn from, in listing order
RootEntries ==
    <<File("index.md", "index"), File("README.md", "hello"),
      File("readme.md", "hello"), File("notes.md", "notes"),
      File("other.md", "other"), File("notes.MD", "hello"),
      File("notes.txt", "hello"), File("LICENSE", "hello"),
      File(".hidden.md", "hello"),
      Dir("guide", <<File("setup.md", "setup")>>),
      Dir("guide", <<File("index.md", "hello"), File("setup.md", "setup")>>),
      File("my-notes.md", "notes"), File("my_notes.md", "other")>>

RECURSIVE listing(_, _)
listing(chosen, i) ==
    IF i > Len(RootEntries) THEN <<>>
    ELSE (IF i \in chosen THEN <<RootEntries[i]>> ELSE <<>>) \o listing(chosen, i + 1)

LocalTrees ==
    {listing(chosen, 1) : chosen \in
        {c \in SUBSET DOMAIN RootEntries :
            /\ Cardinality(c) <= MaxEntries
            /\ \A i, j \in c : i # j => RootEntries[i].name # RootEntries[j].name}}

\* What the root page holds before the first pass
DirRemotes ==
    {<<>>,
     <<PageS("Notes"), TextS(T2), ListS(T1, <<PageS("Sub")>>)>>,
     <<TextS(T2), PageS("Old")>>,
     <<PageS("My notes"), PageS("My notes")>>}

RECURSIVE delete_file(_, _, _)
delete_file(entries, directory, filename) ==
    IF entries = <<>> THEN <<>>
    ELSE LET e == Head(entries)
             full_path == realpath(join(directory, e.name))
             rest == delete_file(Tail(entries), directory, filename)
         IN IF e.isdir
            THEN <<[e EXCEPT !.entries = delete_file(@, full_path, filename)]>> \o rest
            ELSE IF full_path = filename THEN rest
            ELSE <<e>> \o rest

DirInit ==
    /\ fs \in LocalTrees
    /\ \E kids \in DirRemotes : remote = Fresh(Build(EmptyRemote, Root, kids))
    /\ pc = "start"
    /\ pre = remote
    /\ files_to_pages = <<>>
    /\ pos = 1
    /\ run = 1
    /\ inferred = {}
    /\ deleted = <<>>
    /\ targets = <<>>
    /\ parent = Root
    /\ idx = 1
    /\ cursor = <<>>
    /\ touched = {}
    /\ matched = <<>>
    /\ table = [schema |-> <<>>, rows |-> <<>>]
    /\ NoRender

\* line 282: create_page_structure(os.path.realpath(directory), root_block)
DirMap ==
    /\ pc = "start"
    /\ LET m == create_page_structure(Fresh(remote), DocsRoot, fs, Root)
       IN /\ remote' = m.R
          /\ files_to_pages' = m.files_to_pages
          /\ inferred' = m.inferred
    /\ pre' = remote
    /\ pos' = 1
    /\ pc' = "pages"
    /\ UNCHANGED <<fs, run, deleted, table>>
    /\ UNCHANGED reconVars
    /\ UNCHANGED renderVars

\* the next pair of the loop, or the exception out of sync_directory_to_block
end_of_iteration(page) ==
    /\ remote' = page.R
    /\ pc' = IF page.raised THEN "raised" ELSE "pages"
    /\ pos' = IF page.raised THEN pos ELSE pos + 1

\* lines 287-305, one iteration; pc = "raised" when an exception ended the pass
DirPage ==
    /\ pc = "pages"
    /\ pos <= Len(files_to_pages)
    /\ \E emoji \in icon_choices(remote, files_to_pages[pos][2]) :
          end_of_iteration(sync_page(remote, fs, files_to_pages, files_to_pages[pos][1],
                                     files_to_pages[pos][2], emoji))
    /\ UNCHANGED <<pre, fs, files_to_pages, run, inferred, deleted, table>>
    /\ UNCHANGED reconVars
    /\ UNCHANGED renderVars

\* the loop is over: sync_directory_to_block returns
DirReturn ==
    /\ pc = "pages"
    /\ pos > Len(files_to_pages)
    /\ pc' = "done"
    /\ UNCHANGED <<remote, pre, table>>
    /\ UNCHANGED reconVars
    /\ UNCHANGED dirVars
    /\ UNCHANGED renderVars

\* main is run again on the same local tree
DirRerun ==
    /\ pc \in {"done", "raised"}
    /\ run = 1
    /\ run' = 2
    /\ pc' = "start"
    /\ UNCHANGED <<remote, pre, table, fs, files_to_pages, pos, inferred, deleted>>
    /\ UNCHANGED reconVars
    /\ UNCHANGED renderVars

\* a synced file is deleted locally, then main is run again
DirDeleteFile ==
    /\ pc \in {"done", "raised"}
    /\ run = 1
    /\ \E i \in DOMAIN files_to_pages :
          /\ deleted' = files_to_pages[i]
          /\ fs' = delete_file(fs, DocsRoot, files_to_pages[i][1])
    /\ run' = 2
    /\ pc' = "start"
    /\ UNCHANGED <<remote, pre, table, files_to_pages, pos, inferred>>
    /\ UNCHANGED reconVars
    /\ UNCHANGED renderVars

DirNext == DirMap \/ DirPage \/ DirReturn \/ DirRerun \/ DirDeleteFile

SpecDir == DirInit /\ [][DirNext]_vars

----------------------------------------------------------------------------
(* Claims about the reconciler (SpecRecon). *)

\* The non-page children of a block are, in order, blocks of the kinds and
\* properties of the descriptors, and so on below each of them.
RECURSIVE ConformsTo(_, _, _)
ConformsTo(R, block, descs) ==
    LET np == NonPages(R, R.blocks[block].content)
    IN /\ Len(np) = Len(descs)
       /\ \A i \in DOMAIN descs :
             /\ i \in DOMAIN np
             /\ R.blocks[np[i]].type = descs[i].type
             /\ \A k \in DOMAIN descs[i].props :
                   getattr(R.blocks[np[i]], descs[i].props[k][1]) = descs[i].props[k][2]
             /\ ConformsTo(R, np[i], descs[i].children)

\* C1: when sync_markdown_blocks_to_block has returned, the non-page children
\* of the parent are exactly one block per target descriptor, in target order,
\* each of the descriptor's kind and non-structural properties, and the same
\* holds below each of them for the descriptor's children.
C1_ChildrenMatchTargets ==
    pc = "done" => ConformsTo(remote, parent, targets)

\* C1 witness: a call that reused one child, created another and removed a
\* stale one.
C1_Witness ==
    /\ pc = "done"
    /\ Len(targets) = 2
    /\ matched[1].reused
    /\ ~matched[2].reused
    /\ \E i \in DOMAIN remote.ops : remote.ops[i][1] = "remove"
    /\ \E c \in Range(remote.blocks[parent].content) : IsPage(remote, c)

PagesUnder(R) == {id \in DOMAIN R.blocks : R.blocks[id].type = "page" /\ Attached(R, id)}

\* C2: every page-kind block that is anywhere under the parent before the
\* call is still in the tree after it.
C2_NoPageRemoved ==
    pc = "done" => PagesUnder(pre) \subseteq PagesUnder(remote)

\* C2 as amended: the page-kind blocks that are direct children of the
\* reconciled parent when the call starts stay its children, in the same
\* order, throughout the call and after it.
C2_DirectPagesKept ==
    Pages(pre, pre.blocks[parent].content) = Pages(remote, remote.blocks[parent].content)

\* C2 witness: the call is over, the parent had a page child and a stale
\* child, and a page nested below a non-page child went with a removal.
C2_Witness ==
    /\ pc = "done"
    /\ Pages(pre, pre.blocks[parent].content) # <<>>
    /\ \E i \in DOMAIN remote.ops : remote.ops[i][1] = "remove"
    /\ PagesUnder(pre) # PagesUnder(remote)

\* The children of the reconciled parent when the call starts
Original == pre.blocks[parent].content

IndexIn(seq, x) == CHOOSE i \in DOMAIN seq : seq[i] = x

\* C14: the cursor over the parent's original children only moves forward:
\* every reused child is an original child that lies before the cursor, the
\* children reused by successive descriptors lie at strictly increasing
\* positions of the original order (so none is reused twice), and after a
\* descriptor that caused a creation every later descriptor causes one too.
C14_CursorOnlyForward ==
    /\ \A i \in DOMAIN matched :
          matched[i].reused => matched[i].child \in Range(Original)
    /\ \A i, j \in DOMAIN matched :
          i < j =>
            /\ (matched[i].reused /\ matched[j].reused)
                  => IndexIn(Original, matched[i].child) < IndexIn(Original, matched[j].child)
            /\ ~matched[i].reused => ~matched[j].reused
    /\ pc = "loop" =>
          \E k \in 0..Len(Original) :
              /\ cursor = SubSeq(Original, k + 1, Len(Original))
              /\ \A i \in DOMAIN matched :
                    matched[i].reused => IndexIn(Original, matched[i].child) <= k

\* C14 witness: the first descriptor reused the second original child, past a
\* first child that the second descriptor matches; the second descriptor
\* found the cursor exhausted and caused a creation.
C14_Witness ==
    /\ pc = "done"
    /\ Len(Original) = 2
    /\ Len(matched) = 2
    /\ matched[1].reused /\ matched[1].child = Original[2]
    /\ ~matched[2].reused
    /\ block_matches_markdown_block(pre.blocks[Original[1]], targets[2].type,
                                    targets[2].props)

\* C17: after the reconciler returns, the title of every reused or created
\* child equals the title runs of the descriptor it was matched to, an empty
\* title of the descriptor included.
C17_TitleEqualsDescriptor ==
    pc = "done" =>
        \A i \in DOMAIN matched :
            remote.blocks[matched[i].child].title = targets[i].title

\* The title a child carried when the call started; empty for a created one
TitleBefore(c) ==
    IF c \in DOMAIN pre.blocks THEN pre.blocks[c].title ELSE <<>>

\* C17 as amended: the title of a child matched to a descriptor with title
\* runs equals those runs, and was written exactly when it differed; a child
\* matched to a descriptor without title runs receives no title write, and
\* a reused one carries the title it had when the call started.
C17_TitleWrittenWhenGiven ==
    \A i \in DOMAIN matched :
        LET c == matched[i].child
            written == \E k \in DOMAIN remote.ops : remote.ops[k] = <<"set_title", c>>
        IN IF targets[i].title # <<>>
           THEN /\ remote.blocks[c].title = targets[i].title
                /\ written <=> (TitleBefore(c) # targets[i].title)
           ELSE /\ matched[i].reused => remote.blocks[c].title = TitleBefore(c)
                /\ ~written

\* C17 witness: the call is over, a child that carried a title was reused
\* for a descriptor without title runs, and another child's title was written.
C17_Witness ==
    /\ pc = "done"
    /\ \E i \in DOMAIN matched :
          /\ matched[i].reused
          /\ targets[i].title = <<>>
          /\ TitleBefore(matched[i].child) # <<>>
    /\ \E k \in DOMAIN remote.ops : remote.ops[k][1] = "set_title"

----------------------------------------------------------------------------
(* Claims about the collection synchronizer (SpecRows). *)

RowIds(R) ==
    LET rs == R.blocks[TableBlock].collection.rows
    IN [k \in DOMAIN rs |-> rs[k].id]

OpsOf(R, kind) == {i \in DOMAIN R.ops : R.ops[i][1] = kind}

\* C9: after sync_collection_rows the collection holds len(rows) rows; the
\* first min(existing, len(rows)) rows are the rows that were at those
\* positions before; the rows removed are exactly the existing rows at
\* positions beyond len(rows); rows are created only for the positions beyond
\* the existing row count.
C9_RowsAlignedByPosition ==
    pc \in {"synced", "renamed"} =>
        LET old == RowIds(pre)
            new == RowIds(remote)
            n == Len(table.rows)
            kept == Min(Len(old), n)
        IN /\ Len(new) = n
           /\ SubSeq(new, 1, kept) = SubSeq(old, 1, kept)
           /\ {remote.ops[i][3] : i \in OpsOf(remote, "remove_row")}
                 = {old[k] : k \in (n + 1)..Len(old)}
           /\ {remote.ops[i][3] : i \in OpsOf(remote, "add_row")}
                 = {new[k] : k \in (Len(old) + 1)..n}
           /\ Cardinality(OpsOf(remote, "add_row")) = n - kept
           /\ Range(new) \cap Range(old) = Range(SubSeq(old, 1, kept))

\* C9 witness: a call that found two rows and was given one, and a call that
\* found one row and was given two.
C9_Witness ==
    /\ pc = "synced"
    /\ Len(RowIds(pre)) = 2
    /\ Len(table.rows) = 1
    /\ OpsOf(remote, "remove_row") # {}

C9_WitnessGrow ==
    /\ pc = "synced"
    /\ Len(RowIds(pre)) = 1
    /\ Len(table.rows) = 2
    /\ OpsOf(remote, "add_row") # {}

ExpectedIds ==
    <<"title", "x0000", "x0001", "x0002", "x0003", "x0004", "x0005", "x0006",
      "x0007", "x0008", "x0009", "x000a", "x000b", "x000c", "x000d", "x000e",
      "x000f", "x0010", "x0011">>

WideSchema == [i \in DOMAIN ExpectedIds |-> Col("c")]

\* C10: column ids depend on the column index alone ('title', then 'x' and
\* the 4-digit zero-padded lowercase hex of index - 1), so syncing a table
\* again with header cells renamed, column count and row values unchanged,
\* writes the schema and nothing else.
C10_RenameWritesSchemaOnly ==
    /\ \A n \in DOMAIN WideSchema :
          collection_schema_ids(SubSeq(WideSchema, 1, n)) = SubSeq(ExpectedIds, 1, n)
    /\ pc # "call" =>
          collection_schema_ids(table.schema) = SubSeq(ExpectedIds, 1, Len(table.schema))
    /\ pc = "renamed" =>
          /\ \A i \in DOMAIN remote.ops : remote.ops[i] = <<"set_schema", TableBlock>>
          /\ remote.blocks[TableBlock].collection.rows
                = pre.blocks[TableBlock].collection.rows

\* C10 witness: a table of two rows and two columns was synced again with a
\* header renamed, and the schema was written.
C10_Witness ==
    /\ pc = "renamed"
    /\ Len(table.schema) >= 2
    /\ Len(table.rows) = 2
    /\ remote.ops = << <<"set_schema", TableBlock>> >>
    /\ remote.blocks[TableBlock].collection.schema
          # pre.blocks[TableBlock].collection.schema

\* The value a row of a collection holds under a column id; "None" when it
\* holds none or the collection has no such row
Stored(R, rid, col) ==
    LET rs == R.blocks[TableBlock].collection.rows
        S == {k \in DOMAIN rs : rs[k].id = rid}
    IN IF S = {} THEN "None"
       ELSE LET vals == rs[CHOOSE k \in S : TRUE].vals
            IN IF col \in DOMAIN vals THEN vals[col] ELSE "None"

\* The (row, column position) pairs for which a target row has a value and
\* the computed schema a column
Cells ==
    {<<i, k>> \in (DOMAIN table.rows) \X (DOMAIN table.schema) :
        k <= Len(table.rows[i])}

----------------------------------------------------------------------------
(* Claims about the directory sync (SpecDir). *)

\* The local tree holds directories and non-hidden .md files only
RECURSIVE PlainTree(_)
PlainTree(entries) ==
    \A i \in DOMAIN entries :
        IF entries[i].isdir THEN PlainTree(entries[i].entries)
        ELSE splitext(entries[i].name)[2] = ".md" /\ ~startswith(entries[i].name, ".")

\* C3: a second run of sync_directory_to_block on the same unchanged tree of
\* directories, .md files and index/README files issues no remote mutation,
\* whether the run returns or ends in an exception.
C3_SecondRunSilent ==
    (pc \in {"done", "raised"} /\ run = 2 /\ deleted = <<>> /\ PlainTree(fs))
        => remote.ops = <<>>

\* C3 witness: the second run over a tree with a subdirectory and two mapped
\* files, whose first run created pages, has ended without a mutation.
C3_Witness ==
    /\ pc \in {"done", "raised"}
    /\ run = 2
    /\ deleted = <<>>
    /\ PlainTree(fs)
    /\ \E i \in DOMAIN fs : fs[i].isdir
    /\ Len(files_to_pages) >= 2
    /\ \E b \in inferred : remote.blocks[b].title # <<>> /\ b \in DOMAIN pre.blocks
    /\ remote.ops = <<>>

\* C4: when sync_directory_to_block has returned, every page-kind block still
\* reachable from the root page was found or created for a local entry in
\* this run; in particular the page of a synced .md file that was deleted
\* locally before the run is gone.
C4_NoStalePage ==
    pc = "done" =>
        /\ \A b \in PagesUnder(remote) : b = Root \/ b \in inferred
        /\ (deleted # <<>> /\ deleted[2] \notin inferred \cup {Root})
              => ~Attached(remote, deleted[2])

\* Every page-kind child comes after every non-page child
PagesTrail(R, block) ==
    LET kids == R.blocks[block].content
    IN \A i, j \in DOMAIN kids : (IsPage(R, kids[i]) /\ ~IsPage(R, kids[j])) => j < i

\* A page and the body blocks beneath it: the blocks a reconciliation of the
\* page goes through
RECURSIVE BodyUnder(_, _)
BodyUnder(R, block) ==
    {block} \cup UNION {BodyUnder(R, c) : c \in Range(NonPages(R, R.blocks[block].content))}

\* C5: after a sync pass, in the child list of every mapped page and of every
\* block beneath it that the reconciliation goes through, the page-kind
\* children come after all non-page siblings.
C5_PagesTrail ==
    pc \in {"done", "raised"} =>
        \A i \in DOMAIN files_to_pages :
            \A b \in BodyUnder(remote, files_to_pages[i][2]) : PagesTrail(remote, b)

\* The document with every link target replaced by what resolve_link returns
RECURSIVE with_resolved_links(_, _, _)
with_resolved_links(token, filename, links) ==
    [token EXCEPT
        !.text = IF token.kind = "Link" THEN resolve_link(filename, links, @) ELSE @,
        !.header = [i \in DOMAIN @ |-> with_resolved_links(@[i], filename, links)],
        !.children = [i \in DOMAIN @ |-> with_resolved_links(@[i], filename, links)]]

RECURSIVE has_link(_)
has_link(token) ==
    \/ token.kind = "Link"
    \/ \E i \in DOMAIN token.children : has_link(token.children[i])

\* The body of the page carries the titles of the descriptors, in order
TitlesSynced(R, block, descs) ==
    LET np == NonPages(R, R.blocks[block].content)
    IN /\ Len(np) = Len(descs)
       /\ \A k \in DOMAIN descs : k \in DOMAIN np /\ R.blocks[np[k]].title = descs[k].title

\* C6: once the pass has taken up a file with links, the page of the file
\* carries the rendered text with, in every anchor marker, the target
\* unchanged when it has a URL scheme, else the browsable URL of the page
\* mapped to the target resolved against the file's directory, else the
\* original target.
C6_LinksResolved ==
    pc \in {"pages", "done", "raised"} =>
        \A i \in DOMAIN files_to_pages :
            LET filename == files_to_pages[i][1]
                doc == Head(read_file(fs, DocsRoot, filename))
            IN (has_link(doc) /\ (i < pos \/ (i = pos /\ pc = "raised")))
                  => TitlesSynced(remote, files_to_pages[i][2],
                                  convert(with_resolved_links(doc, filename, files_to_pages)))

\* The child page of a directory's page titled after a directory entry, 0 if none
dir_page(R, page, name) ==
    LET kids == R.blocks[page].content
        S == {i \in DOMAIN kids :
                 /\ R.blocks[kids[i]].type = "page"
                 /\ page_title(R.blocks[kids[i]]) = capitalize(name)}
    IN IF S = {} THEN 0 ELSE kids[CHOOSE i \in S : \A j \in S : i <= j]

RECURSIVE HomeMapped(_, _, _, _, _)
HomeMapped(R, ftp, entries, directory, page) ==
    LET path(i) == realpath(join(directory, entries[i].name))
        homes == {i \in DOMAIN entries :
                     /\ ~entries[i].isdir
                     /\ lower(entries[i].name) \in {"index.md", "readme.md"}}
        home == IF isfile(entries, "index.md")
                THEN {i \in homes : entries[i].name = "index.md"}
                ELSE {i \in homes : lower(entries[i].name) = "readme.md"}
    IN /\ home # {} => \E i \in home : dict_get(ftp, path(i)) = page
       /\ \A i \in homes : dict_get(ftp, path(i)) \in {0, page}
       /\ \A i \in DOMAIN entries :
             (entries[i].isdir /\ dir_page(R, page, entries[i].name) # 0)
                => HomeMapped(R, ftp, entries[i].entries, path(i),
                              dir_page(R, page, entries[i].name))

\* C7: after create_page_structure, in every directory index.md, if present,
\* else a file named README.md in any letter case, is mapped to the
\* directory's own page, and no child page is made for it.
C7_HomeFileOnDirectoryPage ==
    (pc = "pages" /\ pos = 1) => HomeMapped(remote, files_to_pages, fs, DocsRoot, Root)

RECURSIVE MdMapped(_, _, _)
MdMapped(ftp, entries, directory) ==
    \A i \in DOMAIN entries :
        LET e == entries[i]
            full_path == realpath(join(directory, e.name))
        IN (~startswith(e.name, ".") /\ lower(e.name) \notin {"index.md", "readme.md"})
              => IF e.isdir THEN MdMapped(ftp, e.entries, full_path)
                 ELSE (dict_get(ftp, full_path) # 0) <=> (lower(splitext(e.name)[2]) = ".md")

\* C8: after create_page_structure, a non-hidden entry that is no index or
\* README file and no directory is in files_to_pages exactly when its
\* extension is .md in any letter case, and every directory is recursed into.
C8_MdInAnyCaseMapped ==
    (pc = "pages" /\ pos = 1) => MdMapped(files_to_pages, fs, DocsRoot)

\* The title infer_block derives from the name of a directory entry
derived_title(name) ==
    capitalize(replace(replace(splitext(name)[1], "-", " "), "_", " "))

\* The page children of a page that carry a title, in child order
TitledPages(R, page, title) ==
    SelectSeq(R.blocks[page].content,
              LAMBDA c : R.blocks[c].type = "page"
                            /\ notion_as_plain_text(R.blocks[c].title) = title)

\* Every entry that is given a page has the first page child of that title of
\* its directory's page, and so on below each directory.
RECURSIVE FirstOfTitle(_, _, _, _, _)
FirstOfTitle(R, ftp, entries, directory, page) ==
    \A i \in DOMAIN entries :
        LET e == entries[i]
            full_path == realpath(join(directory, e.name))
            same == TitledPages(R, page, derived_title(e.name))
        IN (/\ ~startswith(e.name, ".")
            /\ lower(e.name) \notin {"index.md", "readme.md"}
            /\ splitext(e.name)[2] \in {".md", ""})
              => /\ same # <<>>
                 /\ IF e.isdir
                    THEN FirstOfTitle(R, ftp, e.entries, full_path, same[1])
                    ELSE splitext(e.name)[2] = ".md" => dict_get(ftp, full_path) = same[1]

\* The blocks the mapping pass added
Created == {b \in DOMAIN remote.blocks : b \notin DOMAIN pre.blocks}

\* C16: after create_page_structure, every block the pass created is a page
\* whose parent had no page child of that title before and has no other
\* created page child of that title; the pass issued one creation per created
\* page and no other mutation; and every entry given a page has the first
\* page child of its derived title, so entries of one directory that
\* normalize to the same title have the same page.
C16_PageFoundOrCreatedOnce ==
    (pc = "pages" /\ pos = 1) =>
        /\ \A b \in Created :
              LET par == remote.blocks[b].parent
                  title == notion_as_plain_text(remote.blocks[b].title)
              IN /\ remote.blocks[b].type = "page"
                 /\ par \in DOMAIN pre.blocks => TitledPages(pre, par, title) = <<>>
                 /\ \A c \in Created :
                       (c # b /\ remote.blocks[c].parent = par)
                          => notion_as_plain_text(remote.blocks[c].title) # title
        /\ Len(remote.ops) = Cardinality(Created)
        /\ \A k \in DOMAIN remote.ops :
              remote.ops[k][1] = "add_new" /\ remote.ops[k][2] \in Created
        /\ FirstOfTitle(remote, files_to_pages, fs, DocsRoot, Root)

\* C16 witness: my-notes.md and my_notes.md were mapped under a root page
\* without a page of their title; one page was created and both files have it.
C16_Witness ==
    /\ pc = "pages"
    /\ pos = 1
    /\ Len(files_to_pages) = 2
    /\ files_to_pages[1][1] = "/docs/my-notes.md"
    /\ files_to_pages[2][1] = "/docs/my_notes.md"
    /\ files_to_pages[1][2] = files_to_pages[2][2]
    /\ files_to_pages[1][2] \in Created
    /\ Len(remote.ops) = 1

\* The pages infer_block returned for the directories and .md files of a
\* directory and of the directories below it
RECURSIVE MapperPages(_, _, _)
MapperPages(R, entries, page) ==
    UNION {LET e == entries[i]
               same == TitledPages(R, page, derived_title(e.name))
           IN IF \/ startswith(e.name, ".")
                 \/ lower(e.name) \in {"index.md", "readme.md"}
                 \/ same = <<>>
                 \/ ~(e.isdir \/ splitext(e.name)[2] = ".md")
                 \/ splitext(e.name)[2] \notin {".md", ""}
              THEN {}
              ELSE {same[1]} \cup (IF e.isdir THEN MapperPages(R, e.entries, same[1])
                                   ELSE {})
           : i \in DOMAIN entries}

\* The remote tree after the sort and clean steps (lines 299-305) of the
\* iteration for one page of files_to_pages
Cleaned(block) ==
    prune_pages(move_pages_to_end(remote, block), block, touched_pages_of(files_to_pages))

C19_NoPageForIgnoredEntry ==
    (pc = "pages" /\ pos = 1) => Created \subseteq MapperPages(remote, fs, Root)

\* C11: after sync_directory_to_block every page of files_to_pages is locked
\* and has an icon; a page that had an icon before the run keeps it, and a
\* page that was locked before the run receives no lock write.
C11_LockedWithIcon ==
    pc \in {"done", "raised"} =>
        \A i \in DOMAIN files_to_pages :
            LET b == files_to_pages[i][2]
            IN /\ remote.blocks[b].locked
               /\ remote.blocks[b].icon # "None"
               /\ (b \in DOMAIN pre.blocks /\ pre.blocks[b].icon # "None")
                     => remote.blocks[b].icon = pre.blocks[b].icon
               /\ (b \in DOMAIN pre.blocks /\ pre.blocks[b].locked)
                     => \A k \in DOMAIN remote.ops : remote.ops[k] # <<"lock", b>>

----------------------------------------------------------------------------
(* Claims about the renderer (SpecRender). *)

\* No two consecutive runs of a title carry the same style markers
RunsMerged(title) ==
    \A k \in 1..(Len(title) - 1) : title[k][2] # title[k + 1][2]

RECURSIVE TitlesMerged(_)
TitlesMerged(descs) ==
    \A i \in DOMAIN descs :
        RunsMerged(descs[i].title) /\ TitlesMerged(descs[i].children)

\* C12: in every title of the descriptors convert returns, no two consecutive
\* styled runs have the same style markers.
C12_TitleRunsMerged ==
    pc = "rendered" => TitlesMerged(rendered)

\* C13: merging the result of merge_adjacent_tokens again returns it
\* unchanged, and the literals of the merged runs concatenate to the same
\* text as the literals of the runs.
C13_MergeIdempotent ==
    /\ Len(merged) >= 1 =>
          notion_as_plain_text(merged[1]) = notion_as_plain_text(runs)
    /\ Len(merged) = 2 => merged[2] = merged[1]

\* C13 witness: three runs, two of them merged into one by the first merge,
\* were merged a second time.
C13_Witness ==
    /\ Len(merged) = 2
    /\ Len(runs) = 3
    /\ Len(merged[1]) = 2

====
